---- MODULE Spec2Model ----
(***************************************************************************)
(* The attachment extraction engine of apple-notes-exporter-rs             *)
(* (src/src/lib.rs, extract_attachments_from_html and                      *)
(* extract_attachments_from_directory) as a state machine over a file      *)
(* system.                                                                 *)
(*                                                                         *)
(* Strings are sequences of tokens: a token is a run of characters that    *)
(* the code never cuts ("data:", "image/png", ";", ",", a base64 quantum   *)
(* of four characters, ...).  A file name is a sequence of tokens, a path  *)
(* a sequence of file names.  A document is the sequence of its img        *)
(* elements, each with the raw text of its src attribute.                  *)
(***************************************************************************)
EXTENDS Integers, Sequences, FiniteSets, TLC

VARIABLES fs, pc, stack, results, ret, log, fs0, prev

vars == <<fs, pc, stack, results, ret, log, fs0, prev>>

\* ------------------------------------------------------------------ bounds
MaxImgs == 3

\* ------------------------------------------------------- sequence helpers
RECURSIVE FirstIndex(_, _, _)
\* Index of the first element of s equal to tok at or after position i, 0 if none.
FirstIndex(s, tok, i) ==
    IF i > Len(s) THEN 0
    ELSE IF s[i] = tok THEN i
    ELSE FirstIndex(s, tok, i + 1)

IsPrefixAt(s, pat, i) ==
    /\ i + Len(pat) - 1 <= Len(s)
    /\ \A k \in 1..Len(pat) : s[i + k - 1] = pat[k]

RECURSIVE ReplaceFrom(_, _, _, _)
\* str::replace: every non-overlapping occurrence of pat in s, left to right.
ReplaceFrom(s, pat, rep, i) ==
    IF i > Len(s) THEN <<>>
    ELSE IF Len(pat) > 0 /\ IsPrefixAt(s, pat, i)
         THEN rep \o ReplaceFrom(s, pat, rep, i + Len(pat))
         ELSE <<s[i]>> \o ReplaceFrom(s, pat, rep, i + 1)

StrReplace(s, pat, rep) == ReplaceFrom(s, pat, rep, 1)

Contains(s, pat) == \E i \in 1..Len(s) : IsPrefixAt(s, pat, i)

RECURSIVE Flatten(_)
Flatten(ss) == IF ss = <<>> THEN <<>> ELSE Head(ss) \o Flatten(Tail(ss))

\* --------------------------------------------------------------- HTML text
\* Character references in an attribute value are decoded by the HTML parser:
\* the raw text "&#65;AAA" is the attribute value "AAAA".
DecodeCharRef(tok) == IF tok = "&#65;AAA" THEN "AAAA" ELSE tok

\* element.value().attr("src") of a parsed img element: None when the element
\* has no src attribute, else the decoded attribute value.
AttrSrc(element) ==
    IF element.has
    THEN [some |-> TRUE, v |-> [i \in DOMAIN element.src |-> DecodeCharRef(element.src[i])]]
    ELSE [some |-> FALSE, v |-> <<>>]

\* String::replace over the document text: the text between two src values is
\* markup that no src value contains, so the occurrences are those inside the
\* raw src values.
ReplaceInHtml(html, pat, rep) ==
    [i \in DOMAIN html |->
        IF html[i].has
        THEN [has |-> TRUE, src |-> StrReplace(html[i].src, pat, rep)]
        ELSE html[i]]

\* ---------------------------------------------------------------- data URL
ImageTokens ==
    {"image/png", "image/jpeg", "image/jpg", "image/gif", "image/webp",
     "image/svg+xml", "image/bmp", "image/tiff", "image/x-custom", "image/PNG"}

\* src.starts_with("data:image/")
StartsWithDataImage(src) ==
    /\ Len(src) >= 2
    /\ src[1] = "data:"
    /\ src[2] \in ImageTokens

\* src.strip_prefix("data:").and_then(|s| s.split_once(","))
SplitDataUrl(src) ==
    IF Len(src) >= 1 /\ src[1] = "data:"
    THEN LET rest == Tail(src)
             c == FirstIndex(rest, ",", 1)
         IN IF c = 0
            THEN [some |-> FALSE, mime_part |-> <<>>, base64_data |-> <<>>]
            ELSE [some |-> TRUE,
                  mime_part |-> SubSeq(rest, 1, c - 1),
                  base64_data |-> SubSeq(rest, c + 1, Len(rest))]
    ELSE [some |-> FALSE, mime_part |-> <<>>, base64_data |-> <<>>]

\* Mutant: the parameters are kept in the media type.
MimeTypeWithParams(mime_part) == mime_part

\* mime_part.split(';').next()
MimeTypeOf(mime_part) ==
    LET s == FirstIndex(mime_part, ";", 1)
    IN IF s = 0 THEN mime_part ELSE SubSeq(mime_part, 1, s - 1)

\* match mime_type { ... }
ExtensionOf(mime_type) ==
    CASE mime_type = <<"image/png">> -> "png"
      [] mime_type = <<"image/jpeg">> -> "jpg"
      [] mime_type = <<"image/jpg">> -> "jpg"
      [] mime_type = <<"image/gif">> -> "gif"
      [] mime_type = <<"image/webp">> -> "webp"
      [] mime_type = <<"image/svg+xml">> -> "svg"
      [] mime_type = <<"image/bmp">> -> "bmp"
      [] mime_type = <<"image/tiff">> -> "tiff"
      [] OTHER -> "bin"

\* ------------------------------------------------------------------ base64
\* A quantum of four base64 characters and the bytes it stands for.
Quantum(tok) ==
    CASE tok = "AAAA" -> [ok |-> TRUE, pad |-> FALSE, bytes |-> <<0, 0, 0>>]
      [] tok = "QUJD" -> [ok |-> TRUE, pad |-> FALSE, bytes |-> <<65, 66, 67>>]
      [] tok = "QQ==" -> [ok |-> TRUE, pad |-> TRUE, bytes |-> <<65>>]
      [] OTHER -> [ok |-> FALSE, pad |-> FALSE, bytes |-> <<>>]

\* BASE64_STANDARD.decode(base64_data): an error on any character outside the
\* alphabet and on padding before the end.
Base64Decode(data) ==
    IF \A i \in DOMAIN data :
          /\ Quantum(data[i]).ok
          /\ Quantum(data[i]).pad => i = Len(data)
    THEN [ok |-> TRUE, bytes |-> Flatten([i \in DOMAIN data |-> Quantum(data[i]).bytes])]
    ELSE [ok |-> FALSE, bytes |-> <<>>]

\* ------------------------------------------------------------------- paths
ExtTokens ==
    {".html", ".HTML", ".txt", ".png", ".jpg", ".gif", ".webp", ".svg", ".bmp",
     ".tiff", ".bin"}

\* A file name whose bytes are not valid UTF-8 holds this token.
NonUtf8Tokens == {"<0xFF>"}

\* OsStr::to_str
ToStr(name) ==
    IF \E i \in DOMAIN name : name[i] \in NonUtf8Tokens
    THEN [some |-> FALSE, v |-> <<>>]
    ELSE [some |-> TRUE, v |-> name]

\* Path::file_name
FileName(path) == path[Len(path)]

\* Path::parent
Parent(path) == SubSeq(path, 1, Len(path) - 1)

HasExtension(name) == Len(name) >= 2 /\ name[Len(name)] \in ExtTokens

\* Path::extension, with its leading dot
Extension(path) ==
    LET name == FileName(path)
    IN IF HasExtension(name)
       THEN [some |-> TRUE, v |-> name[Len(name)]]
       ELSE [some |-> FALSE, v |-> ""]

\* Path::file_stem
FileStem(path) ==
    LET name == FileName(path)
    IN IF HasExtension(name) THEN SubSeq(name, 1, Len(name) - 1) ELSE name

\* Mutant: no directory is recognised as an attachments directory.
EndsWithAttachmentsNever(name) == FALSE

\* name.ends_with("-attachments")
EndsWithAttachments(name) == Len(name) >= 1 /\ name[Len(name)] = "-attachments"

\* ------------------------------------------------------------- file system
DirNode == [kind |-> "dir", content |-> [t |-> "none", imgs |-> <<>>, bytes |-> <<>>]]

TextFile(imgs) ==
    [kind |-> "file", content |-> [t |-> "text", imgs |-> imgs, bytes |-> <<>>]]

BinFile(bytes) ==
    [kind |-> "file", content |-> [t |-> "bin", imgs |-> <<>>, bytes |-> bytes]]

Exists(f, path) == path \in DOMAIN f

IsDir(f, path) == Exists(f, path) /\ f[path].kind = "dir"

IsFile(f, path) == Exists(f, path) /\ f[path].kind = "file"

\* The names fs::read_dir(dir) yields.
Entries(f, dir) == {FileName(p) : p \in {q \in DOMAIN f : Len(q) = Len(dir) + 1 /\ Parent(q) = dir}}

Put(f, path, node) ==
    [p \in DOMAIN f \cup {path} |-> IF p = path THEN node ELSE f[p]]

\* fs::read_to_string: fails on a missing path, a directory and a file that
\* is not text.
CanReadToString(f, path) == IsFile(f, path) /\ f[path].content.t = "text"

\* fs::write: fails when the parent is not a directory or the path is one.
CanWrite(f, path) == IsDir(f, Parent(path)) /\ ~IsDir(f, path)

Ev(op, path) == [op |-> op, path |-> path]

\* ------------------------------------------- extract_attachments_from_html
\* format!("{attachment_count:03}")
Pad3(n) ==
    IF n < 10 THEN "00" \o ToString(n)
    ELSE IF n < 100 THEN "0" \o ToString(n)
    ELSE ToString(n)

\* Mutant: the number is not padded.
AttachmentFileNameUnpadded(attachment_count, extension) ==
    <<"attachment-" \o ToString(attachment_count), "." \o extension>>

\* format!("attachment-{attachment_count:03}.{extension}")
AttachmentFileName(attachment_count, extension) ==
    <<"attachment-" \o Pad3(attachment_count), "." \o extension>>

\* html_path.file_stem().and_then(|s| s.to_str()).unwrap_or("note")
HtmlStem(html_path) ==
    LET s == ToStr(FileStem(html_path))
    IN IF s.some THEN s.v ELSE <<"note">>

\* html_path.parent().join(format!("{html_stem}-attachments"))
AttachmentsDir(html_path) ==
    Append(Parent(html_path), HtmlStem(html_path) \o <<"-attachments">>)

\* attachments_dir.file_name().and_then(|s| s.to_str()).unwrap_or("attachments")
AttachmentsFolderName(attachments_dir) ==
    LET s == ToStr(FileName(attachments_dir))
    IN IF s.some THEN s.v ELSE <<"attachments">>

\* format!("{attachments_folder_name}/{filename}")
RelativePath(attachments_folder_name, filename) ==
    attachments_folder_name \o <<"/">> \o filename

\* if !attachments_dir.exists() { fs::create_dir_all(&attachments_dir)?; }
CreateDirIfNeeded(f, attachments_dir) ==
    IF Exists(f, attachments_dir) THEN f ELSE Put(f, attachments_dir, DirNode)

\* The replacement of one matched data URL in the text being rewritten.
ReplaceDataUrl(modified_html, src, relative_path) ==
    ReplaceInHtml(modified_html, src, relative_path)

\* One matched img element whose payload decoded: the body of the loop from
\* the directory check to attachments.push.
StoreAttachment(st, src, mime_type, extension, decoded_data, attachments_dir) ==
    LET f1 == CreateDirIfNeeded(st.fs, attachments_dir)
        log1 == st.log \o <<Ev("exists", attachments_dir)>>
                       \o (IF Exists(st.fs, attachments_dir) THEN <<>>
                           ELSE <<Ev("mkdir", attachments_dir)>>)
        count == st.attachment_count + 1
        filename == AttachmentFileName(count, extension)
        attachment_path == Append(attachments_dir, filename)
    IN IF ~CanWrite(f1, attachment_path)
       THEN [st EXCEPT !.fs = f1, !.log = log1, !.attachment_count = count,
                       !.err = "TempFileError"]
       ELSE [st EXCEPT
               !.fs = Put(f1, attachment_path, BinFile(decoded_data)),
               !.log = log1 \o <<Ev("write", attachment_path)>>,
               !.attachment_count = count,
               !.modified_html =
                   ReplaceDataUrl(st.modified_html, src,
                       RelativePath(AttachmentsFolderName(attachments_dir), filename)),
               !.attachments = Append(st.attachments,
                   [path |-> attachment_path,
                    original_data_url |-> src,
                    mime_type |-> mime_type])]

RECURSIVE ImgLoop(_, _, _, _)
\* for element in document.select(&img_selector) { ... }, from element i on.
ImgLoop(elements, i, st, attachments_dir) ==
    IF st.err # "none" \/ i > Len(elements) THEN st
    ELSE LET src == AttrSrc(elements[i])
             sp == SplitDataUrl(src.v)
             mime_type == MimeTypeOf(sp.mime_part)
             decoded == Base64Decode(sp.base64_data)
         IN IF ~src.some \/ ~StartsWithDataImage(src.v) \/ ~sp.some
            THEN ImgLoop(elements, i + 1, st, attachments_dir)
            ELSE IF ~decoded.ok
            THEN [st EXCEPT !.err = "Base64DecodeError"]
            ELSE ImgLoop(elements, i + 1,
                     StoreAttachment(st, src.v, mime_type, ExtensionOf(mime_type),
                                     decoded.bytes, attachments_dir),
                     attachments_dir)

\* Mutant: the document is written back whether or not anything was extracted.
WriteBackAlways(st, html_path) ==
    [st EXCEPT !.fs = Put(st.fs, html_path, TextFile(st.modified_html)),
               !.log = st.log \o <<Ev("write", html_path)>>]

\* if html_modified { fs::write(html_path, &modified_html)?; }
WriteBack(st, html_path) ==
    IF st.attachments # <<>>
    THEN [st EXCEPT !.fs = Put(st.fs, html_path, TextFile(st.modified_html)),
                    !.log = st.log \o <<Ev("write", html_path)>>]
    ELSE st

\* Mutant: the write-back also runs after a failure in the loop.
FinishAfterError(st, html_path) == WriteBack(st, html_path)

\* The write-back is reached only when no `?` in the loop returned early.
Finish(st, html_path) == IF st.err = "none" THEN WriteBack(st, html_path) ELSE st

\* Mutant: the attachments directory is created before the loop, not on the
\* first decoded payload.
ExtractHtmlEagerDir(f, l, html_path) ==
    IF ~CanReadToString(f, html_path)
    THEN [fs |-> f, log |-> l \o <<Ev("read", html_path)>>, err |-> "TempFileError",
          result |-> [html_path |-> html_path, attachments |-> <<>>, html_modified |-> FALSE]]
    ELSE LET html_content == f[html_path].content.imgs
             dir == AttachmentsDir(html_path)
             st0 == [fs |-> CreateDirIfNeeded(f, dir),
                     log |-> l \o <<Ev("read", html_path), Ev("exists", dir)>>
                               \o (IF Exists(f, dir) THEN <<>> ELSE <<Ev("mkdir", dir)>>),
                     err |-> "none",
                     attachment_count |-> 0, modified_html |-> html_content,
                     attachments |-> <<>>]
             st1 == ImgLoop(html_content, 1, st0, dir)
             st2 == Finish(st1, html_path)
         IN [fs |-> st2.fs, log |-> st2.log, err |-> st2.err,
             result |-> [html_path |-> html_path,
                         attachments |-> IF st2.err = "none" THEN st2.attachments ELSE <<>>,
                         html_modified |-> st2.err = "none" /\ st2.attachments # <<>>]]

\* extract_attachments_from_html(html_path) on the file system f with the
\* log l so far: the file system and the log it leaves, and what it returns.
ExtractHtml(f, l, html_path) ==
    IF ~CanReadToString(f, html_path)
    THEN [fs |-> f, log |-> l \o <<Ev("read", html_path)>>, err |-> "TempFileError",
          result |-> [html_path |-> html_path, attachments |-> <<>>, html_modified |-> FALSE]]
    ELSE LET html_content == f[html_path].content.imgs
             st0 == [fs |-> f, log |-> l \o <<Ev("read", html_path)>>, err |-> "none",
                     attachment_count |-> 0, modified_html |-> html_content,
                     attachments |-> <<>>]
             st1 == ImgLoop(html_content, 1, st0, AttachmentsDir(html_path))
             st2 == Finish(st1, html_path)
         IN [fs |-> st2.fs, log |-> st2.log, err |-> st2.err,
             result |-> [html_path |-> html_path,
                         attachments |-> IF st2.err = "none" THEN st2.attachments ELSE <<>>,
                         html_modified |-> st2.err = "none" /\ st2.attachments # <<>>]]

\* ------------------------------------------------------------------ inputs
Img(src) == [has |-> TRUE, src |-> src]

ImgNoSrc == [has |-> FALSE, src |-> <<>>]

PngA == <<"data:", "image/png", ";", "base64", ",", "AAAA">>

PngAB == <<"data:", "image/png", ";", "base64", ",", "AAAA", "QUJD">>

JpegB == <<"data:", "image/jpeg", ";", "base64", ",", "QUJD">>

GifEnt == <<"data:", "image/gif", ";", "base64", ",", "&#65;AAA">>

BadPng == <<"data:", "image/png", ";", "base64", ",", "!!!!">>

External == <<"https://example.com/a.png">>

Wrapped == <<"https://example.com/?u=">> \o PngA

\* The img elements the documents of the model are made of.
Elements == {Img(PngA), Img(PngAB), Img(JpegB), Img(GifEnt), Img(BadPng), Img(External)}

\* Every document of at most MaxImgs of these elements, and documents with an
\* img element without src and with a src that wraps a data URL.
Docs ==
    UNION {[1..n -> Elements] : n \in 0..MaxImgs}
    \cup {<<ImgNoSrc>>, <<ImgNoSrc, Img(PngA)>>, <<Img(Wrapped)>>,
          <<Img(Wrapped), Img(PngA)>>, <<Img(PngA), Img(Wrapped)>>,
          <<Img(JpegB), Img(Wrapped)>>}

MimeTokens == ImageTokens \cup {"text/plain", "image/"}

\* What follows the media type token in a data URL.
UrlTails ==
    {<<",", "AAAA">>, <<";", "base64", ",", "QUJD">>, <<";", "base64">>, <<",">>,
     <<";", "charset=x", ";", "base64", ",", "QQ==">>, <<",", "AAAA", ";", "x">>,
     <<"+x", ",", "AAAA">>, <<",", "QQ==", "AAAA">>}

\* Documents of one img element, over every media type.
MimeDocs == {<<Img(<<"data:", m>> \o t)>> : m \in MimeTokens, t \in UrlTails}

SmallDocs ==
    {<<>>, <<Img(PngA)>>, <<Img(BadPng)>>, <<Img(PngA), Img(JpegB)>>, <<Img(External)>>,
     <<Img(PngA), Img(BadPng)>>}

Root == <<<<"exports">>>>

In(dir, name) == Append(dir, name)

NoteHtml == In(Root, <<"Note", ".html">>)

NoteAttachments == In(Root, <<"Note", "-attachments">>)

Leftover == In(NoteAttachments, <<"leftover", ".html">>)

StaleAttachment == In(NoteAttachments, <<"attachment-001", ".png">>)

SubDir == In(Root, <<"sub">>)

SubHtml == In(SubDir, <<"b", ".html">>)

MissingPath == <<<<"missing">>>>

Tree(pairs) == [p \in {x[1] : x \in pairs} |-> (CHOOSE x \in pairs : x[1] = p)[2]]

\* exports/Note.html alone.
SingleTrees == {Tree({<<Root, DirNode>>, <<NoteHtml, TextFile(d)>>}) : d \in Docs \cup MimeDocs}

\* exports/Note.html beside what an earlier run or the user left at
\* exports/Note-attachments: a directory with a stale attachment, or a file.
LeftTrees ==
    {Tree({<<Root, DirNode>>, <<NoteHtml, TextFile(d)>>, <<NoteAttachments, DirNode>>,
           <<StaleAttachment, BinFile(<<9>>)>>}) : d \in SmallDocs}
    \cup
    {Tree({<<Root, DirNode>>, <<NoteHtml, TextFile(d)>>,
           <<NoteAttachments, BinFile(<<9>>)>>}) : d \in SmallDocs}

\* A tree of several documents, with a leftover document and a stale
\* attachment under an attachments directory, and a subdirectory holding a
\* file whose extension is not html.
WalkTrees ==
    {Tree({<<Root, DirNode>>, <<NoteHtml, TextFile(d1)>>, <<NoteAttachments, DirNode>>,
           <<Leftover, TextFile(<<Img(PngA)>>)>>, <<StaleAttachment, BinFile(<<9>>)>>,
           <<SubDir, DirNode>>, <<SubHtml, TextFile(d2)>>,
           <<In(SubDir, <<"UPPER", ".HTML">>), TextFile(<<Img(PngA)>>)>>})
        : d1 \in SmallDocs, d2 \in SmallDocs}

\* Two documents whose stems are not valid UTF-8, beside note.html.
Utf8Trees ==
    {Tree({<<Root, DirNode>>,
           <<In(Root, <<"<0xFF>", ".html">>), TextFile(d1)>>,
           <<In(Root, <<"note", ".html">>), TextFile(d2)>>})
        : d1 \in SmallDocs, d2 \in SmallDocs}

Trees == SingleTrees \cup LeftTrees \cup WalkTrees \cup Utf8Trees

\* ----------------------------------------------------------- state machine
NoRet == [api |-> "none", arg |-> <<>>, err |-> "none", results |-> <<>>]

Init ==
    /\ fs \in Trees
    /\ pc = "idle"
    /\ stack = <<>>
    /\ results = <<>>
    /\ ret = NoRet
    /\ log = <<>>
    /\ fs0 = fs
    /\ prev = [api |-> "none", arg |-> <<>>, err |-> "none", fs |-> fs]

\* The paths a caller passes to extract_attachments_from_html.
HtmlArgs ==
    {p \in DOMAIN fs : Parent(p) = Root /\ Extension(p) = [some |-> TRUE, v |-> ".html"]}

\* The paths a caller passes to extract_attachments_from_directory.
DirArgs == {Root, MissingPath, NoteHtml}

BeginCall ==
    /\ pc = "idle"
    /\ fs0' = fs
    /\ prev' = [api |-> ret.api, arg |-> ret.arg, err |-> ret.err, fs |-> fs]

\* A call of extract_attachments_from_html(html_path).
CallExtractHtml(html_path) ==
    /\ BeginCall
    /\ LET r == ExtractHtml(fs, <<>>, html_path)
       IN /\ fs' = r.fs
          /\ log' = r.log
          /\ ret' = [api |-> "html", arg |-> html_path, err |-> r.err,
                     results |-> IF r.err = "none" THEN <<r.result>> ELSE <<>>]
    /\ UNCHANGED <<pc, stack, results>>

\* Mutant: without the is_dir check, fs::read_dir fails on the path.
CallExtractDirNotDirFails(dir) ==
    /\ BeginCall
    /\ ~IsDir(fs, dir)
    /\ log' = <<Ev("readdir", dir)>>
    /\ ret' = [api |-> "dir", arg |-> dir, err |-> "TempFileError", results |-> <<>>]
    /\ UNCHANGED <<fs, pc, stack, results>>

\* extract_attachments_from_directory(dir) when !dir.is_dir(): Ok(vec![]).
CallExtractDirNotDir(dir) ==
    /\ BeginCall
    /\ ~IsDir(fs, dir)
    /\ log' = <<Ev("stat", dir)>>
    /\ ret' = [api |-> "dir", arg |-> dir, err |-> "none", results |-> <<>>]
    /\ UNCHANGED <<fs, pc, stack, results>>

\* extract_attachments_from_directory(dir) on a directory: up to fs::read_dir.
CallExtractDir(dir) ==
    /\ BeginCall
    /\ IsDir(fs, dir)
    /\ pc' = "walk"
    /\ stack' = <<[dir |-> dir, todo |-> Entries(fs, dir)]>>
    /\ results' = <<>>
    /\ log' = <<Ev("stat", dir), Ev("readdir", dir)>>
    /\ ret' = [api |-> "dir", arg |-> dir, err |-> "pending", results |-> <<>>]
    /\ UNCHANGED fs

Top == stack[Len(stack)]

Done(name) == [stack EXCEPT ![Len(stack)].todo = @ \ {name}]

\* An entry that is a directory whose name ends with "-attachments": continue.
WalkSkipAttachments(name) ==
    /\ pc = "walk" /\ name \in Top.todo
    /\ IsDir(fs, In(Top.dir, name))
    /\ EndsWithAttachments(name)
    /\ stack' = Done(name)
    /\ log' = Append(log, Ev("stat", In(Top.dir, name)))
    /\ UNCHANGED <<fs, pc, results, ret, fs0, prev>>

\* An entry that is another directory: extract_attachments_recursive(&path).
WalkDescend(name) ==
    /\ pc = "walk" /\ name \in Top.todo
    /\ IsDir(fs, In(Top.dir, name))
    /\ ~EndsWithAttachments(name)
    /\ stack' = Append(Done(name),
                       [dir |-> In(Top.dir, name), todo |-> Entries(fs, In(Top.dir, name))])
    /\ log' = log \o <<Ev("stat", In(Top.dir, name)), Ev("readdir", In(Top.dir, name))>>
    /\ UNCHANGED <<fs, pc, results, ret, fs0, prev>>

\* Mutant: the error of a document is dropped and the walk goes on.
FailedNever(r) == FALSE

\* The `?` on extract_attachments_from_html(&path): an Err returns at once.
Failed(r) == r.err # "none"

\* An entry that is a file with extension html: extract_attachments_from_html,
\* whose error ends the walk.  The attachments directory it creates in the
\* directory being read may or may not be yielded by the iterator later.
WalkHtml(name, seen) ==
    /\ pc = "walk" /\ name \in Top.todo
    /\ ~IsDir(fs, In(Top.dir, name))
    /\ Extension(In(Top.dir, name)) = [some |-> TRUE, v |-> ".html"]
    /\ LET path == In(Top.dir, name)
           r == ExtractHtml(fs, Append(log, Ev("stat", path)), path)
           made == AttachmentsDir(path)
       IN /\ fs' = r.fs
          /\ log' = r.log
          /\ IF Failed(r)
             THEN /\ pc' = "idle"
                  /\ stack' = <<>>
                  /\ results' = <<>>
                  /\ ret' = [ret EXCEPT !.err = r.err]
                  /\ seen = FALSE
             ELSE /\ pc' = "walk"
                  /\ results' = Append(results, r.result)
                  /\ ret' = ret
                  /\ IF ~Exists(fs, made) /\ Exists(r.fs, made)
                     THEN stack' = [Done(name) EXCEPT ![Len(stack)].todo =
                                       IF seen THEN @ \cup {FileName(made)} ELSE @]
                     ELSE seen = FALSE /\ stack' = Done(name)
    /\ UNCHANGED <<fs0, prev>>

\* Any other entry is passed over.
WalkOther(name) ==
    /\ pc = "walk" /\ name \in Top.todo
    /\ ~IsDir(fs, In(Top.dir, name))
    /\ Extension(In(Top.dir, name)) # [some |-> TRUE, v |-> ".html"]
    /\ stack' = Done(name)
    /\ log' = Append(log, Ev("stat", In(Top.dir, name)))
    /\ UNCHANGED <<fs, pc, results, ret, fs0, prev>>

\* The entries of a directory are exhausted: Ok(()) to the caller, which is
\* the loop over the parent directory or extract_attachments_from_directory.
WalkReturn ==
    /\ pc = "walk" /\ Top.todo = {}
    /\ stack' = SubSeq(stack, 1, Len(stack) - 1)
    /\ IF Len(stack) = 1
       THEN /\ pc' = "idle"
            /\ ret' = [ret EXCEPT !.err = "none", !.results = results]
            /\ results' = <<>>
       ELSE UNCHANGED <<pc, ret, results>>
    /\ UNCHANGED <<fs, log, fs0, prev>>

Next ==
    \/ \E p \in HtmlArgs : CallExtractHtml(p)
    \/ \E d \in DirArgs : CallExtractDirNotDir(d)
    \/ \E d \in DirArgs : CallExtractDir(d)
    \/ \E n \in (IF pc = "walk" THEN Top.todo ELSE {}) : WalkSkipAttachments(n)
    \/ \E n \in (IF pc = "walk" THEN Top.todo ELSE {}) : WalkDescend(n)
    \/ \E n \in (IF pc = "walk" THEN Top.todo ELSE {}), seen \in BOOLEAN : WalkHtml(n, seen)
    \/ \E n \in (IF pc = "walk" THEN Top.todo ELSE {}) : WalkOther(n)
    \/ WalkReturn

Spec == Init /\ [][Next]_vars

\* =================================================================== claims
HtmlDone == pc = "idle" /\ ret.api = "html"

HtmlOk == HtmlDone /\ ret.err = "none"

DirDone == pc = "idle" /\ ret.api = "dir"

DirOk == DirDone /\ ret.err = "none"

\* The img elements of a document before the call and now.
OrigImgs(p) == fs0[p].content.imgs

NewImgs(p) == fs[p].content.imgs

\* The element's src has the data-URL shape: it starts with data:image/ and
\* has a comma.
IsMatch(e) ==
    /\ AttrSrc(e).some
    /\ StartsWithDataImage(AttrSrc(e).v)
    /\ SplitDataUrl(AttrSrc(e).v).some

Payload(e) == SplitDataUrl(AttrSrc(e).v).base64_data

\* The number of matching elements among the first i of a document.
Rank(imgs, i) == Cardinality({k \in 1..i : IsMatch(imgs[k])})

Matches(imgs) == {i \in DOMAIN imgs : IsMatch(imgs[i])}

\* The reference, relative to the document, to a stored attachment.
RefTo(path) == FileName(Parent(path)) \o <<"/">> \o FileName(path)

Wrote(path) == \E k \in DOMAIN log : log[k] = Ev("write", path)

\* C1: two img elements with the byte-identical data URL as src yield two
\* distinct attachment files, and in the rewritten document each of the two
\* references its own file.
C1_DuplicatesKeepOwnFile ==
    HtmlOk =>
        LET imgs == OrigImgs(ret.arg)
            att == ret.results[1].attachments
        IN \A i \in Matches(imgs), j \in Matches(imgs) :
              (i < j /\ imgs[i].src = imgs[j].src /\ AttrSrc(imgs[i]).v = imgs[i].src) =>
                  /\ att[Rank(imgs, i)].path # att[Rank(imgs, j)].path
                  /\ IsFile(fs, att[Rank(imgs, i)].path)
                  /\ IsFile(fs, att[Rank(imgs, j)].path)
                  /\ NewImgs(ret.arg)[i].src = RefTo(att[Rank(imgs, i)].path)
                  /\ NewImgs(ret.arg)[j].src = RefTo(att[Rank(imgs, j)].path)

\* C2: after a successful extract_attachments_from_directory, a second run
\* over the same root returns html_modified = false and no attachments for
\* every document and leaves every file as the first run left it.
C2_SecondRunIsNoOp ==
    (DirOk /\ prev.api = "dir" /\ prev.err = "none" /\ prev.arg = ret.arg) =>
        /\ \A k \in DOMAIN ret.results :
              /\ ~ret.results[k].html_modified
              /\ ret.results[k].attachments = <<>>
        /\ fs = prev.fs

HasMalformed(imgs) == \E i \in Matches(imgs) : ~Base64Decode(Payload(imgs[i])).ok

C4_WriteBackIffExtracted ==
    HtmlOk =>
        LET r == ret.results[1]
            imgs == OrigImgs(ret.arg)
        IN /\ Len(r.attachments) = Cardinality(Matches(imgs))
           /\ Wrote(ret.arg) <=> r.attachments # <<>>
           /\ r.html_modified <=> r.attachments # <<>>
           /\ Matches(imgs) = {} =>
                 /\ fs = fs0
                 /\ r.attachments = <<>>
                 /\ ~r.html_modified
                 /\ \A k \in DOMAIN log : log[k].op \notin {"mkdir", "write"}

\* A successful call on a document whose only img has an external URL.
C4_Witness ==
    /\ HtmlOk
    /\ OrigImgs(ret.arg) = <<Img(External)>>
    /\ ret.results[1].attachments = <<>>

RECURSIVE SplitSlash(_)
\* The names of a relative reference.
SplitSlash(ref) ==
    LET c == FirstIndex(ref, "/", 1)
    IN IF c = 0 THEN <<ref>>
       ELSE <<SubSeq(ref, 1, c - 1)>> \o SplitSlash(SubSeq(ref, c + 1, Len(ref)))

\* The path a reference in a document of directory dir resolves to.
Resolve(dir, ref) == dir \o SplitSlash(ref)

\* C5: after a successful call, for every img whose src was a matched data
\* URL, the recorded file holds the decoded bytes of its payload, the src of
\* that element now resolves from the document's directory to a file holding
\* those bytes, and no matched data URL remains in the document.
C5_RoundTrip ==
    HtmlOk =>
        LET imgs == OrigImgs(ret.arg)
            new == NewImgs(ret.arg)
            att == ret.results[1].attachments
        IN \A i \in Matches(imgs) :
              LET bytes == Base64Decode(Payload(imgs[i])).bytes
                  target == Resolve(Parent(ret.arg), new[i].src)
              IN /\ IsFile(fs, att[Rank(imgs, i)].path)
                 /\ fs[att[Rank(imgs, i)].path].content.bytes = bytes
                 /\ IsFile(fs, target)
                 /\ fs[target].content.t = "bin"
                 /\ fs[target].content.bytes = bytes
                 /\ \A k \in DOMAIN new : ~Contains(new[k].src, AttrSrc(imgs[i]).v)

\* The results of the completed call, of either function.
OkResults == IF pc = "idle" /\ ret.err = "none" THEN ret.results ELSE <<>>

\* The numbers 1 to 9 written with three digits.
ThreeDigits == <<"001", "002", "003", "004", "005", "006", "007", "008", "009">>

\* The i-th attachment of result r lies in directory dir, is named
\* attachment-<i in three digits>.<ext>, and stands for the i-th matching img
\* element of the document.
NumberedIn(r, dir) ==
    LET imgs == OrigImgs(r.html_path)
    IN /\ Len(r.attachments) = Cardinality(Matches(imgs))
       /\ \A i \in DOMAIN r.attachments :
             /\ i <= Len(ThreeDigits)
             /\ Parent(r.attachments[i].path) = dir
             /\ Len(FileName(r.attachments[i].path)) = 2
             /\ FileName(r.attachments[i].path)[1] = "attachment-" \o ThreeDigits[i]
             /\ \E e \in Matches(imgs) :
                   /\ Rank(imgs, e) = i
                   /\ r.attachments[i].original_data_url = AttrSrc(imgs[e]).v

\* C6 as stated: the i-th attachment of every successful result has the path
\* <document-parent>/<document-stem>-attachments/attachment-<i, 3 digits>.<ext>,
\* numbered from 1 for each document, without gaps, across media types.
C6_PathOfIthAttachment ==
    \A k \in DOMAIN OkResults :
        NumberedIn(OkResults[k],
            Append(Parent(OkResults[k].html_path),
                   FileStem(OkResults[k].html_path) \o <<"-attachments">>))

\* The stem the directory is named after: the document's, or "note" when the
\* document's stem is not valid UTF-8.
StemOrNote(path) ==
    IF \E i \in DOMAIN FileStem(path) : FileStem(path)[i] \in NonUtf8Tokens
    THEN <<"note">>
    ELSE FileStem(path)

\* What the code keeps of C6: the same, with the directory named
\* note-attachments when the document's stem is not valid UTF-8.
C6_PathOfIthAttachmentUtf8 ==
    \A k \in DOMAIN OkResults :
        NumberedIn(OkResults[k],
            Append(Parent(OkResults[k].html_path),
                   StemOrNote(OkResults[k].html_path) \o <<"-attachments">>))

\* A walk that returns two documents with attachments, one of them with two
\* attachments of different media types.
C6_Witness ==
    /\ DirOk
    /\ \E a \in DOMAIN ret.results, b \in DOMAIN ret.results :
          /\ a # b
          /\ Len(ret.results[a].attachments) = 2
          /\ ret.results[a].attachments[1].mime_type # ret.results[a].attachments[2].mime_type
          /\ Len(ret.results[b].attachments) >= 1

IsUnder(root, p) == Len(p) > Len(root) /\ SubSeq(p, 1, Len(root)) = root

\* p lies below root under a directory whose name ends with "-attachments".
UnderAttachments(root, p) ==
    /\ IsUnder(root, p)
    /\ \E k \in (Len(root) + 1)..(Len(p) - 1) : p[k][Len(p[k])] = "-attachments"

\* The .html files reachable from root through no such directory.
Reachable(f, root) ==
    {p \in DOMAIN f :
        /\ IsUnder(root, p)
        /\ IsFile(f, p)
        /\ Extension(p) = [some |-> TRUE, v |-> ".html"]
        /\ ~UnderAttachments(root, p)}

OneResultPerDocument ==
    /\ Len(ret.results) = Cardinality(Reachable(fs0, ret.arg))
    /\ {ret.results[k].html_path : k \in DOMAIN ret.results} = Reachable(fs0, ret.arg)

NothingReadUnderAttachments ==
    \A k \in DOMAIN log :
        log[k].op \in {"read", "stat", "readdir"} => ~UnderAttachments(ret.arg, log[k].path)

C8_NotADirectoryIsEmpty ==
    (DirDone /\ ~IsDir(fs0, ret.arg)) =>
        /\ ret.err = "none"
        /\ ret.results = <<>>
        /\ fs = fs0
        /\ \A k \in DOMAIN log : log[k].op = "stat"

\* The call on the path of a regular file.
C8_Witness == DirDone /\ IsFile(fs0, ret.arg) /\ ret.results = <<>>

\* The documents read by the walk, in the order they were read.
ReadAt(k) == log[k].op = "read"

LastRead == CHOOSE k \in DOMAIN log : ReadAt(k) /\ \A j \in DOMAIN log : ReadAt(j) => j <= k

\* C9: a walk over a tree with a document whose extraction fails returns the
\* error and no result list; the failing document is the last one read, the
\* documents read before it are rewritten and their attachment files are on
\* disk, and every other document is neither read nor modified.
C9_FailureAbortsWalk ==
    /\ (DirDone /\ \E p \in Reachable(fs0, ret.arg) : ExtractHtml(fs0, <<>>, p).err # "none")
          => ret.err \in {"Base64DecodeError", "TempFileError"}
    /\ (DirDone /\ ret.err # "none") =>
          /\ ret.results = <<>>
          /\ stack = <<>>
          /\ \E k \in DOMAIN log : ReadAt(k)
          /\ ExtractHtml(fs0, <<>>, log[LastRead].path).err = ret.err
          /\ \A p \in Reachable(fs0, ret.arg) :
                IF \E k \in 1..(LastRead - 1) : log[k] = Ev("read", p)
                THEN LET e == ExtractHtml(fs0, <<>>, p)
                     IN /\ e.err = "none"
                        /\ fs[p] = e.fs[p]
                        /\ \A i \in DOMAIN e.result.attachments :
                              /\ Exists(fs, e.result.attachments[i].path)
                              /\ fs[e.result.attachments[i].path]
                                    = e.fs[e.result.attachments[i].path]
                ELSE p # log[LastRead].path =>
                        /\ fs[p] = fs0[p]
                        /\ \A k \in DOMAIN log : log[k].path # p

\* A walk that fails on the second document it reads, after it rewrote the
\* first.
C9_Witness ==
    /\ DirDone /\ ret.err = "Base64DecodeError"
    /\ \E k \in DOMAIN log : ReadAt(k)
    /\ \E k \in 1..(LastRead - 1) :
          /\ ReadAt(k)
          /\ fs[log[k].path] # fs0[log[k].path]

\* The extension of each media type the code knows.
KnownExtension ==
    [m \in {"image/png", "image/jpeg", "image/jpg", "image/gif", "image/webp",
            "image/svg+xml", "image/bmp", "image/tiff"} |->
        CASE m = "image/png" -> ".png"
          [] m \in {"image/jpeg", "image/jpg"} -> ".jpg"
          [] m = "image/gif" -> ".gif"
          [] m = "image/webp" -> ".webp"
          [] m = "image/svg+xml" -> ".svg"
          [] m = "image/bmp" -> ".bmp"
          [] m = "image/tiff" -> ".tiff"]

ExpectedExtension(mime_type) ==
    IF Len(mime_type) = 1 /\ mime_type[1] \in DOMAIN KnownExtension
    THEN KnownExtension[mime_type[1]]
    ELSE ".bin"

\* The position of the first ";" or "," of a data URL.
FirstSeparator(url) ==
    CHOOSE k \in DOMAIN url :
        /\ url[k] \in {";", ","}
        /\ \A j \in 1..(k - 1) : url[j] \notin {";", ","}

\* C10: the media type recorded for a matched reference is the text between
\* "data:" and the first ";" or ",", the extension of its file is given by the
\* table and is bin for every other media type, and a document whose matching
\* references all decode is extracted without error whatever their media types.
C10_MediaTypeAndExtension ==
    /\ \A k \in DOMAIN OkResults : \A i \in DOMAIN OkResults[k].attachments :
          LET a == OkResults[k].attachments[i]
          IN /\ a.mime_type = SubSeq(a.original_data_url, 2, FirstSeparator(a.original_data_url) - 1)
             /\ FileName(a.path)[2] = ExpectedExtension(a.mime_type)
    /\ (HtmlDone /\ CanReadToString(fs0, ret.arg) /\ ~HasMalformed(OrigImgs(ret.arg))
          /\ ~IsFile(fs0, AttachmentsDir(ret.arg))) => ret.err = "none"

\* data:image/x-custom,AAAA is stored as attachment-001.bin.
C10_Witness ==
    /\ HtmlOk
    /\ OrigImgs(ret.arg) = <<Img(<<"data:", "image/x-custom", ",", "AAAA">>)>>
    /\ Len(ret.results[1].attachments) = 1
    /\ FileName(ret.results[1].attachments[1].path) = <<"attachment-001", ".bin">>

\* C11: in a document that also has matching references, every img src that
\* does not have the data-URL shape is not counted as an attachment and is
\* the same in the rewritten document, also when it contains a matched data
\* URL as a substring.
C11_NonMatchingUntouched ==
    (HtmlOk /\ Matches(OrigImgs(ret.arg)) # {}) =>
        /\ Len(ret.results[1].attachments) = Cardinality(Matches(OrigImgs(ret.arg)))
        /\ \A i \in DOMAIN OrigImgs(ret.arg) \ Matches(OrigImgs(ret.arg)) :
              NewImgs(ret.arg)[i] = OrigImgs(ret.arg)[i]

\* What the code keeps of C11: a src without the data-URL shape is not counted,
\* and it is the same in the rewritten document when it contains no matched
\* data URL.
C11_NonMatchingWithoutDataUrlUntouched ==
    (HtmlOk /\ Matches(OrigImgs(ret.arg)) # {}) =>
        /\ Len(ret.results[1].attachments) = Cardinality(Matches(OrigImgs(ret.arg)))
        /\ \A i \in DOMAIN OrigImgs(ret.arg) \ Matches(OrigImgs(ret.arg)) :
              (\A m \in Matches(OrigImgs(ret.arg)) :
                    ~Contains(OrigImgs(ret.arg)[i].src, AttrSrc(OrigImgs(ret.arg)[m]).v))
                 => NewImgs(ret.arg)[i] = OrigImgs(ret.arg)[i]

\* The j-th matching img element of a document.
NthMatch(imgs, j) == CHOOSE i \in Matches(imgs) : Rank(imgs, i) = j

\* The first matching element whose payload is not valid base64.
FirstMalformed(imgs) ==
    CHOOSE i \in Matches(imgs) :
        /\ ~Base64Decode(Payload(imgs[i])).ok
        /\ \A j \in Matches(imgs) : j < i => Base64Decode(Payload(imgs[j])).ok

\* Where the attachment of the j-th matching element of document path is stored.
StoredAt(path, imgs, j) ==
    LET url == AttrSrc(imgs[NthMatch(imgs, j)]).v
    IN Append(Append(Parent(path), StemOrNote(path) \o <<"-attachments">>),
              <<"attachment-" \o ThreeDigits[j],
                ExpectedExtension(SubSeq(url, 2, FirstSeparator(url) - 1))>>)

\* C12: when the call fails with a decode error at the k-th matching
\* reference, the files written by the call are exactly attachment-001 ..
\* attachment-(k-1), which are on disk with their bytes; nothing else is
\* written, and for k = 1 no directory is created and nothing changes.
C12_PartialWritesRemain ==
    (HtmlDone /\ ret.err = "Base64DecodeError") =>
        LET imgs == OrigImgs(ret.arg)
            k == Rank(imgs, FirstMalformed(imgs))
            written == {log[x].path : x \in {y \in DOMAIN log : log[y].op = "write"}}
        IN /\ HasMalformed(imgs)
           /\ written = {StoredAt(ret.arg, imgs, j) : j \in 1..(k - 1)}
           /\ Cardinality({y \in DOMAIN log : log[y].op = "write"}) = k - 1
           /\ \A j \in 1..(k - 1) :
                 /\ IsFile(fs, StoredAt(ret.arg, imgs, j))
                 /\ fs[StoredAt(ret.arg, imgs, j)].content.bytes
                       = Base64Decode(Payload(imgs[NthMatch(imgs, j)])).bytes
           /\ \A p \in DOMAIN fs :
                 (p \notin DOMAIN fs0 \/ fs[p] # fs0[p]) =>
                     \/ p \in written
                     \/ k > 1 /\ p = Parent(StoredAt(ret.arg, imgs, 1))
           /\ k = 1 =>
                 /\ fs = fs0
                 /\ \A y \in DOMAIN log : log[y].op # "mkdir"

\* A decode error at the third matching reference, after two attachments of
\* different media types were written.
C12_Witness ==
    /\ HtmlDone /\ ret.err = "Base64DecodeError"
    /\ OrigImgs(ret.arg) = <<Img(PngA), Img(JpegB), Img(BadPng)>>
    /\ IsFile(fs, In(NoteAttachments, <<"attachment-002", ".jpg">>))
    /\ fs[ret.arg] = fs0[ret.arg]

\* C13: in one walk no two distinct documents write attachments into the same
\* attachments directory.
C13_OwnAttachmentsDirectory ==
    DirOk =>
        \A a \in DOMAIN ret.results, b \in DOMAIN ret.results :
            a # b =>
                \A i \in DOMAIN ret.results[a].attachments,
                   j \in DOMAIN ret.results[b].attachments :
                    Parent(ret.results[a].attachments[i].path)
                        # Parent(ret.results[b].attachments[j].path)

ValidUtf8(name) == \A i \in DOMAIN name : name[i] \notin NonUtf8Tokens

\* What the code keeps of C13: two distinct documents whose file names are
\* valid UTF-8 write into different attachments directories.
C13_OwnAttachmentsDirectoryUtf8 ==
    DirOk =>
        \A a \in DOMAIN ret.results, b \in DOMAIN ret.results :
            (/\ a # b
             /\ ValidUtf8(FileName(ret.results[a].html_path))
             /\ ValidUtf8(FileName(ret.results[b].html_path))) =>
                \A i \in DOMAIN ret.results[a].attachments,
                   j \in DOMAIN ret.results[b].attachments :
                    Parent(ret.results[a].attachments[i].path)
                        # Parent(ret.results[b].attachments[j].path)

\* C14: within one run of extract_attachments_from_directory, nothing the
\* engine wrote or created is read afterwards: no document is read twice, no
\* written file is read, and no created directory is listed or has anything
\* below it read.
C14_WrittenIsNotReadAgain ==
    ret.api = "dir" =>
        /\ \A k \in DOMAIN log, j \in DOMAIN log :
              (k < j /\ log[k].op \in {"write", "mkdir"} /\ log[j].op \in {"read", "readdir"}) =>
                  /\ log[j].path # log[k].path
                  /\ ~IsUnder(log[k].path, log[j].path)
        /\ \A k \in DOMAIN log, j \in DOMAIN log :
              (k < j /\ log[k].op = "read") => log[j] # log[k]

\* A finished walk in which the iterator yielded the attachments directory
\* created while its parent was being enumerated, and a document was
\* rewritten.
C14_Witness ==
    /\ DirOk
    /\ \E k \in DOMAIN log, j \in DOMAIN log :
          /\ k < j
          /\ log[k].op = "mkdir"
          /\ log[j] = Ev("stat", log[k].path)
    /\ \E k \in DOMAIN log :
          /\ log[k].op = "write"
          /\ Extension(log[k].path) = [some |-> TRUE, v |-> ".html"]

====
